---------------------------- MODULE Spec2Model ----------------------------
(***************************************************************************)
(* Model of the engine core of kuhree/gg: core.GameLoop.Run, its input     *)
(* goroutine (the Input Pump) and the bounded key-event channel between    *)
(* them (Spec); the same loop with the clock it reads (SpecTiming); the    *)
(* scene state machine scenes.Manager (SpecScenes); and the frame buffer   *)
(* render.Renderer with the terminal it writes to (SpecRender).  Each      *)
(* action is one step or one call of the Go code; the Game and Scene       *)
(* methods are abstract and return any of the outcomes an implementation   *)
(* can.                                                                    *)
(***************************************************************************)
EXTENDS Integers, Sequences, FiniteSets, TLC

\* ------------------------------------------------------------------ bounds
MaxFrames == 5   \* loop iterations explored
MaxReads  == 5   \* successful stdin reads explored
MaxTicks  == 3   \* ticks of work explored in one iteration

\* ------------------------------------------------------- program constants
QueueCap == 1    \* make(chan InputEvent, 1)

\* ------------------------------------------------------------ input values
TargetDelta == 2                       \* targetDeltaTime = 1.0 / targetFps, in ticks
TimeScales == {1, 2}                   \* targetTime values passed to Run
Bytes == {1, 2}                        \* bytes os.Stdin.Read can deliver
ErrQuitGame == "ErrQuitGame"           \* var ErrQuitGame = errors.New("quit game")
GameErrors == {"errA", "errB"}         \* any other error value a Game returns
InitOutcomes == {"nil", "errInit"}
StepOutcomes == {"nil", ErrQuitGame, "panic"} \cup GameErrors
DrawOutcomes == {"ok", "panic"}

VARIABLES
  pc,              \* position of the goroutine executing Run
  running,         \* gl.running
  result,          \* value Run returned ("none" before it returns)
  exitKind,        \* "none" | "return" | "panic": how Run is leaving
  defers,          \* stack of deferred calls of Run, top first
  keyEvents,       \* buffered contents of gl.keyEvents
  closed,          \* gl.keyEvents has been closed
  closeCount,      \* number of close(gl.keyEvents) executed
  signals,         \* gl.signals holds a pending signal (buffer 1)
  resize,          \* gl.resize holds a pending signal (buffer 1)
  notified,        \* signal.Notify has been called
  pumpPc,          \* position of the input goroutine
  pumpBuf,         \* buf[0] of the input goroutine
  termRaw,         \* terminal currently in raw mode
  rawAcquired,     \* terminal.MakeRaw succeeded
  rawFailed,       \* terminal.MakeRaw failed
  cursorVisible,   \* cursor visibility on the terminal
  frames,          \* iterations of the main loop begun
  readLog,         \* history: events the pump read, in order
  delivered,       \* history: events passed to Game.HandleInput, in order
  calls,           \* history: number of calls per Game method / teardown call
  stopCause,       \* history: first condition that called gl.Stop()
  observedClosed,  \* history: the loop received !ok from gl.keyEvents
  fatal,           \* history: non-quit error returned by HandleInput/Update
  iterCalls,       \* history: Game methods called in the current iteration
  targetTime,      \* the targetTime argument of Run (time scale)
  deltaTime,       \* deltaTime of the current iteration, in ticks
  sinceLast,       \* wall-clock ticks elapsed since lastTime was set
  slept,           \* ticks the last time.Sleep of the loop lasted (0: none)
  \* --- scenes.Manager
  scenes,          \* m.scenes: map from SceneID to Scene
  currentScene,    \* m.currentScene (NilScene when nil)
  lifecycle,       \* history: Enter/Exit calls made on scenes, in order
  dispatch,        \* history: Update/Draw/HandleInput calls made on scenes
  mgrCall,         \* history: the last Manager method call, its argument and result
  changed,         \* history: scenes looked up by the ChangeScene calls so far
  mgrCalls,        \* number of Manager method calls made
  \* --- render.Renderer
  rState,          \* "none" before NewRenderer, "ready" after, "failed" if it panicked
  rWidth,          \* r.width
  rHeight,         \* r.height
  buffer,          \* r.buffer[y][x]
  colors,          \* r.colors[y][x]
  out,             \* writes made to standard output by the last Render
  rCall,           \* history: the last Renderer call, its arguments and result
  wasDirty,        \* history: some cell was not blank when Clear was last called
  rOps,            \* number of Renderer calls made
  termColor,       \* terminal: foreground color left by the output so far
  shown            \* terminal: color each cell was displayed in by the last Render

vars == <<pc, running, result, exitKind, defers, keyEvents, closed, closeCount,
          signals, resize, notified, pumpPc, pumpBuf, termRaw, rawAcquired,
          rawFailed, cursorVisible, frames, readLog, delivered, calls,
          stopCause, observedClosed, fatal,
          iterCalls, targetTime, deltaTime, sinceLast, slept,
          scenes, currentScene, lifecycle, dispatch, mgrCall, changed, mgrCalls,
          rState, rWidth, rHeight, buffer, colors, out, rCall, wasDirty, rOps,
          termColor, shown>>

loopVars  == <<pc, running, result, exitKind, defers, frames>>
chanVars  == <<keyEvents, closed, closeCount>>
sigVars   == <<signals, resize, notified>>
pumpVars  == <<pumpPc, pumpBuf, readLog>>
termVars  == <<termRaw, rawAcquired, rawFailed, cursorVisible>>
histVars  == <<delivered, calls, stopCause, observedClosed, fatal>>
frameVars == <<iterCalls, targetTime, deltaTime, sinceLast, slept>>
gameLoopVars == <<loopVars, chanVars, sigVars, pumpVars, termVars, histVars,
                  frameVars>>
sceneVars == <<scenes, currentScene, lifecycle, dispatch, mgrCall, changed,
               mgrCalls>>
renderVars == <<rState, rWidth, rHeight, buffer, colors, out, rCall, wasDirty,
                rOps, termColor, shown>>

Methods == {"Init", "HandleInput", "Update", "Draw", "Cleanup",
            "Restore", "ShowCursor"}

\* InputEvent{Rune: rune(buf[0])}
InputEvent(b) == [Rune |-> b]

Called(m) == [calls EXCEPT ![m] = @ + 1]

\* gl.Stop(): running = false.  The history variable keeps the first cause.
Stop(cause) ==
  /\ running' = FALSE
  /\ stopCause' = IF stopCause = "none" THEN cause ELSE stopCause

\* ------------------------------------------------------- scenes.Manager

MaxAdds     == 2   \* AddScene calls explored
MaxChanges  == 3   \* ChangeScene calls explored
MaxDispatch == 2   \* Update/Draw/HandleInput calls explored

SceneIDs  == {0, 1, 2}          \* type SceneID int
SceneObjs == {"A", "B"}         \* Scene implementations
NilScene  == "nil"              \* the nil Scene interface value
Deltas    == {1, 2}             \* dt values passed to Update
SceneResults == {"nil", ErrQuitGame}   \* what a Scene's HandleInput returns

\* NewManager(): an empty registry, no current scene
SceneInit ==
  /\ scenes = <<>>
  /\ currentScene = NilScene
  /\ lifecycle = <<>>
  /\ dispatch = <<>>
  /\ mgrCall = [op |-> "NewManager", arg |-> 0, ret |-> "void"]
  /\ changed = <<>>
  /\ mgrCalls = [k \in {"add", "change", "dispatch"} |-> 0]

\* ------------------------------------------------------- render.Renderer

MaxRenderOps == 3            \* Renderer calls explored, NewRenderer included

ColorBlack  == 0             \* ColorBlack Color = iota
ColorWhite  == 7             \* ColorWhite
PaletteSize == 16            \* len(DefaultPalette.Colors)
Blank     == " "
FullBlock == "#"             \* FullBlock = U+2588, three bytes in UTF-8
ErrBounds == "drawing outside buffer bounds"
TermDefault == -1       \* terminal: the foreground color before any is set
Unprinted == -2         \* terminal: a cell nothing was printed in

\* arguments the callers pass
Dims   == {<<10, 3>>, <<2, 1>>, <<0, 0>>, <<-1, 0>>, <<-1, 1>>, <<3, -1>>}
Points == {<<-1, 1>>, <<0, -1>>, <<0, 0>>, <<1, 0>>, <<8, 1>>, <<9, 1>>,
           <<10, 1>>, <<9, 2>>, <<0, 3>>}
Inks   == {<<"H", ColorWhite>>, <<"I", ColorBlack>>, <<FullBlock, 16>>}
Texts  == {<<>>, <<"H", "I">>, <<FullBlock, "H">>, <<FullBlock>>}
Sizes  == {<<1, 1>>, <<2, 2>>, <<0, 3>>, <<10, 1>>}

\* number of bytes of the UTF-8 encoding of a rune
Utf8Len(g) == IF g = FullBlock THEN 3 ELSE 1

\* no Renderer has been constructed yet
RenderInit ==
  /\ rState = "none"
  /\ rWidth = 0
  /\ rHeight = 0
  /\ buffer = <<>>
  /\ colors = <<>>
  /\ out = <<>>
  /\ rCall = [op |-> "none", ret |-> "void"]
  /\ wasDirty = FALSE
  /\ rOps = 0
  /\ termColor = TermDefault
  /\ shown = <<>>

Init ==
  /\ SceneInit
  /\ RenderInit
  /\ pc = "start"
  /\ running = FALSE
  /\ result = "none"
  /\ exitKind = "none"
  /\ defers = <<>>
  /\ keyEvents = <<>>
  /\ closed = FALSE
  /\ closeCount = 0
  /\ signals = 0
  /\ resize = 0
  /\ notified = FALSE
  /\ pumpPc = "idle"
  /\ pumpBuf = 0
  /\ termRaw = FALSE
  /\ rawAcquired = FALSE
  /\ rawFailed = FALSE
  /\ cursorVisible = TRUE
  /\ frames = 0
  /\ readLog = <<>>
  /\ delivered = <<>>
  /\ calls = [m \in Methods |-> 0]
  /\ stopCause = "none"
  /\ observedClosed = FALSE
  /\ fatal = "none"
  /\ iterCalls = <<>>
  /\ targetTime = 1
  /\ deltaTime = 0
  /\ sinceLast = 0
  /\ slept = 0

\* ------------------------------------------------------------ Run: startup

\* gl.running = true; err := gl.game.Init(); if err != nil { return err }
CallInit ==
  /\ pc = "start"
  /\ running' = TRUE
  /\ calls' = Called("Init")
  /\ \E r \in InitOutcomes :
       IF r = "nil"
       THEN /\ pc' = "makeraw"
            /\ UNCHANGED <<result, exitKind>>
       ELSE /\ result' = r
            /\ exitKind' = "return"
            /\ pc' = "exit"
  /\ UNCHANGED <<defers, frames, chanVars, sigVars, pumpVars, termVars,
                 delivered, stopCause, observedClosed, fatal>>
  /\ \E ts \in TimeScales : targetTime' = ts
  /\ UNCHANGED <<iterCalls, deltaTime, sinceLast, slept>>
  /\ UNCHANGED <<sceneVars, renderVars>>

\* mutant: the cursor is only restored by code on the normal path, not deferred
Deferred_RestoreOnly == <<"Restore">>

\* defer terminal.Restore(fd, oldState); defer render.ShowCursor()
\* (deferred calls run last registered first)
Deferred == <<"ShowCursor", "Restore">>

\* oldState, err := terminal.MakeRaw(fd); if err != nil { panic(err) }
MakeRaw ==
  /\ pc = "makeraw"
  /\ \E ok \in BOOLEAN :
       IF ok
       THEN /\ termRaw' = TRUE
            /\ rawAcquired' = TRUE
            /\ defers' = Deferred \o defers
            /\ pc' = "setup"
            /\ UNCHANGED <<rawFailed, exitKind>>
       ELSE /\ rawFailed' = TRUE
            /\ exitKind' = "panic"
            /\ pc' = "exit"
            /\ UNCHANGED <<termRaw, rawAcquired, defers>>
  /\ UNCHANGED <<running, result, frames, cursorVisible, chanVars, sigVars,
                 pumpVars, histVars>>
  /\ UNCHANGED frameVars
  /\ UNCHANGED <<sceneVars, renderVars>>

\* term.NewTerminal, signal.Notify(...), go func() {...}()
Setup ==
  /\ pc = "setup"
  /\ notified' = TRUE
  /\ pumpPc' = "check"
  /\ pc' = "top"
  /\ UNCHANGED <<running, result, exitKind, defers, frames, chanVars, signals,
                 resize, pumpBuf, readLog, termVars, histVars>>
  /\ UNCHANGED frameVars
  /\ UNCHANGED <<sceneVars, renderVars>>

\* --------------------------------------------------- Run: leaving the function

\* mutant: the error is logged and swallowed
ReturnErr_Swallowed(e) ==
  /\ result' = "nil"
  /\ exitKind' = "return"
  /\ pc' = "exit"

\* return e
ReturnErr(e) ==
  /\ result' = e
  /\ exitKind' = "return"
  /\ pc' = "exit"

\* a panic raised in a Game method unwinds Run
Panic ==
  /\ exitKind' = "panic"
  /\ pc' = "exit"
  /\ UNCHANGED result

\* the err != nil branches after gl.game.HandleInput / gl.game.Update:
\*   gl.Stop(); if err != ErrQuitGame { return err }
AfterStep(r, next) ==
  CASE r = "nil" ->
         /\ pc' = next
         /\ UNCHANGED <<running, result, exitKind, stopCause, fatal>>
    [] r = ErrQuitGame ->
         /\ Stop("quit")
         /\ pc' = next
         /\ UNCHANGED <<result, exitKind, fatal>>
    [] r = "panic" ->
         /\ Panic
         /\ UNCHANGED <<running, stopCause, fatal>>
    [] OTHER ->
         /\ Stop("error")
         /\ fatal' = r
         /\ ReturnErr(r)

\* --------------------------------------------------------- Run: main loop

\* for gl.running { ... }
LoopEnter ==
  /\ pc = "top"
  /\ running
  /\ frames < MaxFrames
  /\ frames' = frames + 1
  /\ pc' = "select"
  /\ UNCHANGED <<running, result, exitKind, defers, chanVars, sigVars,
                 pumpVars, termVars, histVars>>
  /\ iterCalls' = <<>>
  /\ deltaTime' = sinceLast * targetTime
  /\ sinceLast' = 0
  /\ UNCHANGED <<targetTime, slept>>
  /\ UNCHANGED <<sceneVars, renderVars>>

\* mutant: Run waits for the input goroutine to end before it leaves the loop
LoopExit_JoinsPump ==
  /\ pc = "top"
  /\ ~running
  /\ pumpPc = "done"
  /\ pc' = "cleanup"
  /\ UNCHANGED <<running, result, exitKind, defers, frames, chanVars, sigVars,
                 pumpVars, termVars, histVars>>
  /\ UNCHANGED frameVars
  /\ UNCHANGED <<sceneVars, renderVars>>

\* for gl.running { ... }: the condition is false
LoopExit ==
  /\ pc = "top"
  /\ ~running
  /\ pc' = "cleanup"
  /\ UNCHANGED <<running, result, exitKind, defers, frames, chanVars, sigVars,
                 pumpVars, termVars, histVars>>
  /\ UNCHANGED frameVars
  /\ UNCHANGED <<sceneVars, renderVars>>

\* readiness of the communication cases of the select statement
ResizeReady == resize = 1
SignalReady == signals = 1
KeyReady    == Len(keyEvents) > 0 \/ closed

\* case <-gl.resize: gl.updateTerminalSize(gl.term)
SelectResize ==
  /\ pc = "select"
  /\ ResizeReady
  /\ resize' = 0
  /\ pc' = "update"
  /\ UNCHANGED <<running, result, exitKind, defers, frames, chanVars, signals,
                 notified, pumpVars, termVars, histVars>>
  /\ UNCHANGED frameVars
  /\ UNCHANGED <<sceneVars, renderVars>>

\* mutant: a signal is reported to the caller as an error
SelectSignal_AsError ==
  /\ pc = "select"
  /\ SignalReady
  /\ signals' = 0
  /\ Stop("signal")
  /\ ReturnErr("errA")
  /\ UNCHANGED <<defers, frames, chanVars, resize, notified,
                 pumpVars, termVars, delivered, calls, observedClosed, fatal>>
  /\ UNCHANGED frameVars
  /\ UNCHANGED <<sceneVars, renderVars>>

\* case <-gl.signals: gl.Stop()
SelectSignal ==
  /\ pc = "select"
  /\ SignalReady
  /\ signals' = 0
  /\ Stop("signal")
  /\ pc' = "update"
  /\ UNCHANGED <<result, exitKind, defers, frames, chanVars, resize, notified,
                 pumpVars, termVars, delivered, calls, observedClosed, fatal>>
  /\ UNCHANGED frameVars
  /\ UNCHANGED <<sceneVars, renderVars>>

\* case keyEvent, ok := <-gl.keyEvents: if !ok { gl.Stop(); continue }
SelectKeyClosed ==
  /\ pc = "select"
  /\ keyEvents = <<>>
  /\ closed
  /\ observedClosed' = TRUE
  /\ Stop("closed")
  /\ pc' = "top"
  /\ UNCHANGED <<result, exitKind, defers, frames, chanVars, sigVars,
                 pumpVars, termVars, delivered, calls, fatal>>
  /\ UNCHANGED frameVars
  /\ UNCHANGED <<sceneVars, renderVars>>

\* case keyEvent, ok := <-gl.keyEvents: ... gl.game.HandleInput(keyEvent)
SelectKeyEvent ==
  /\ pc = "select"
  /\ Len(keyEvents) > 0
  /\ keyEvents' = Tail(keyEvents)
  /\ delivered' = Append(delivered, Head(keyEvents))
  /\ calls' = Called("HandleInput")
  /\ \E r \in StepOutcomes : AfterStep(r, "update")
  /\ UNCHANGED <<defers, frames, closed, closeCount, sigVars, pumpVars,
                 termVars, observedClosed>>
  /\ iterCalls' = Append(iterCalls, "HandleInput")
  /\ UNCHANGED <<targetTime, deltaTime, sinceLast, slept>>
  /\ UNCHANGED <<sceneVars, renderVars>>

\* default: no communication case is ready
SelectDefault ==
  /\ pc = "select"
  /\ ~ResizeReady
  /\ ~SignalReady
  /\ ~KeyReady
  /\ pc' = "update"
  /\ UNCHANGED <<running, result, exitKind, defers, frames, chanVars, sigVars,
                 pumpVars, termVars, histVars>>
  /\ UNCHANGED frameVars
  /\ UNCHANGED <<sceneVars, renderVars>>

\* err := gl.game.Update(deltaTime)
Update ==
  /\ pc = "update"
  /\ calls' = Called("Update")
  /\ \E r \in StepOutcomes : AfterStep(r, "draw")
  /\ UNCHANGED <<defers, frames, chanVars, sigVars, pumpVars, termVars,
                 delivered, observedClosed>>
  /\ iterCalls' = Append(iterCalls, "Update")
  /\ UNCHANGED <<targetTime, deltaTime, sinceLast, slept>>
  /\ UNCHANGED <<sceneVars, renderVars>>

\* gl.game.Draw(): the games render a frame, which hides the cursor
Draw ==
  /\ pc = "draw"
  /\ calls' = Called("Draw")
  /\ \E r \in DrawOutcomes :
       IF r = "ok"
       THEN /\ cursorVisible' = FALSE
            /\ pc' = "sleep"
            /\ UNCHANGED <<result, exitKind>>
       ELSE /\ Panic
            /\ UNCHANGED cursorVisible
  /\ UNCHANGED <<running, defers, frames, chanVars, sigVars, pumpVars,
                 termRaw, rawAcquired, rawFailed, delivered, stopCause,
                 observedClosed, fatal>>
  /\ iterCalls' = Append(iterCalls, "Draw")
  /\ UNCHANGED <<targetTime, deltaTime, sinceLast, slept>>
  /\ UNCHANGED <<sceneVars, renderVars>>

\* sleepTime := targetDeltaTime - deltaTime; slept only if sleepTime > 0
SleepTime == IF TargetDelta - deltaTime > 0 THEN TargetDelta - deltaTime ELSE 0

\* time.Sleep(...) and back to the loop condition
Sleep ==
  /\ pc = "sleep"
  /\ pc' = "top"
  /\ UNCHANGED <<running, result, exitKind, defers, frames, chanVars, sigVars,
                 pumpVars, termVars, histVars>>
  /\ slept' = SleepTime
  /\ sinceLast' = sinceLast + SleepTime
  /\ UNCHANGED <<iterCalls, targetTime, deltaTime>>
  /\ UNCHANGED <<sceneVars, renderVars>>

\* gl.game.Cleanup(); return nil
Cleanup ==
  /\ pc = "cleanup"
  /\ calls' = Called("Cleanup")
  /\ ReturnErr("nil")
  /\ UNCHANGED <<running, defers, frames, chanVars, sigVars, pumpVars,
                 termVars, delivered, stopCause, observedClosed, fatal>>
  /\ UNCHANGED frameVars
  /\ UNCHANGED <<sceneVars, renderVars>>

\* the deferred calls run, last registered first, on return and on panic
RunDeferred ==
  /\ pc = "exit"
  /\ defers # <<>>
  /\ defers' = Tail(defers)
  /\ calls' = Called(Head(defers))
  /\ IF Head(defers) = "ShowCursor"
     THEN cursorVisible' = TRUE /\ UNCHANGED termRaw
     ELSE termRaw' = FALSE /\ UNCHANGED cursorVisible
  /\ UNCHANGED <<pc, running, result, exitKind, frames, chanVars, sigVars,
                 pumpVars, rawAcquired, rawFailed, delivered, stopCause,
                 observedClosed, fatal>>
  /\ UNCHANGED frameVars
  /\ UNCHANGED <<sceneVars, renderVars>>

\* Run has left: it returned to its caller, or the panic propagates
Finish ==
  /\ pc = "exit"
  /\ defers = <<>>
  /\ pc' = IF exitKind = "return" THEN "returned" ELSE "panicked"
  /\ UNCHANGED <<running, result, exitKind, defers, frames, chanVars, sigVars,
                 pumpVars, termVars, histVars>>
  /\ UNCHANGED frameVars
  /\ UNCHANGED <<sceneVars, renderVars>>

\* ------------------------------------------------------------ environment

\* SIGINT/SIGTERM delivered to gl.signals (dropped when the buffer is full)
SignalArrives ==
  /\ notified
  /\ signals = 0
  /\ signals' = 1
  /\ UNCHANGED <<loopVars, chanVars, resize, notified, pumpVars, termVars,
                 histVars>>
  /\ UNCHANGED frameVars
  /\ UNCHANGED <<sceneVars, renderVars>>

\* SIGWINCH delivered to gl.resize
ResizeArrives ==
  /\ notified
  /\ resize = 0
  /\ resize' = 1
  /\ UNCHANGED <<loopVars, chanVars, signals, notified, pumpVars, termVars,
                 histVars>>
  /\ UNCHANGED frameVars
  /\ UNCHANGED <<sceneVars, renderVars>>

\* ------------------------------------------------------- input goroutine

\* gl.running is read without synchronisation: the goroutine sees the
\* current value or the value written before it was started (true)
RacyRunning == {running, TRUE}

\* for gl.running { ... }
PumpCheck ==
  /\ pumpPc = "check"
  /\ \E seen \in RacyRunning :
       pumpPc' = IF seen THEN "read" ELSE "done"
  /\ UNCHANGED <<loopVars, chanVars, sigVars, pumpBuf, readLog, termVars,
                 histVars>>
  /\ UNCHANGED frameVars
  /\ UNCHANGED <<sceneVars, renderVars>>

\* n, err := os.Stdin.Read(buf[:]) with err == nil
PumpRead ==
  /\ pumpPc = "read"
  /\ \/ /\ Len(readLog) < MaxReads
        /\ \E b \in Bytes :
             /\ pumpBuf' = b
             /\ readLog' = Append(readLog, InputEvent(b))
        /\ pumpPc' = "send"
     \/ /\ pumpPc' = "check"         \* n = 0
        /\ UNCHANGED <<pumpBuf, readLog>>
  /\ UNCHANGED <<loopVars, chanVars, sigVars, termVars, histVars>>
  /\ UNCHANGED frameVars
  /\ UNCHANGED <<sceneVars, renderVars>>

\* mutant: the pump also stops the loop when the read fails
PumpReadFail_StopsLoop ==
  /\ pumpPc = "read"
  /\ closed' = TRUE
  /\ closeCount' = closeCount + 1
  /\ pumpPc' = "done"
  /\ running' = FALSE
  /\ UNCHANGED <<pc, result, exitKind, defers, frames, keyEvents, sigVars,
                 pumpBuf, readLog, termVars, histVars>>
  /\ UNCHANGED frameVars
  /\ UNCHANGED <<sceneVars, renderVars>>

\* err != nil (EOF or any other error): close(gl.keyEvents); return
PumpReadFail ==
  /\ pumpPc = "read"
  /\ closed' = TRUE
  /\ closeCount' = closeCount + 1
  /\ pumpPc' = "done"
  /\ UNCHANGED <<loopVars, keyEvents, sigVars, pumpBuf, readLog, termVars,
                 histVars>>
  /\ UNCHANGED frameVars
  /\ UNCHANGED <<sceneVars, renderVars>>

\* mutant: a non-blocking send that drops the event when the buffer is full
PumpSend_DropWhenFull ==
  /\ pumpPc = "send"
  /\ keyEvents' = IF Len(keyEvents) < QueueCap
                  THEN Append(keyEvents, InputEvent(pumpBuf))
                  ELSE keyEvents
  /\ pumpPc' = "check"
  /\ UNCHANGED <<loopVars, closed, closeCount, sigVars, pumpBuf, readLog,
                 termVars, histVars>>
  /\ UNCHANGED frameVars
  /\ UNCHANGED <<sceneVars, renderVars>>

\* gl.keyEvents <- InputEvent{Rune: rune(buf[0])}: blocks while the buffer is full
PumpSend ==
  /\ pumpPc = "send"
  /\ Len(keyEvents) < QueueCap
  /\ keyEvents' = Append(keyEvents, InputEvent(pumpBuf))
  /\ pumpPc' = "check"
  /\ UNCHANGED <<loopVars, closed, closeCount, sigVars, pumpBuf, readLog,
                 termVars, histVars>>
  /\ UNCHANGED frameVars
  /\ UNCHANGED <<sceneVars, renderVars>>

Next ==
  \/ CallInit
  \/ MakeRaw
  \/ Setup
  \/ LoopEnter
  \/ LoopExit
  \/ SelectResize
  \/ SelectSignal
  \/ SelectKeyClosed
  \/ SelectKeyEvent
  \/ SelectDefault
  \/ Update
  \/ Draw
  \/ Sleep
  \/ Cleanup
  \/ RunDeferred
  \/ Finish
  \/ SignalArrives
  \/ ResizeArrives
  \/ PumpCheck
  \/ PumpRead
  \/ PumpReadFail
  \/ PumpSend

Spec == Init /\ [][Next]_vars

\* time passes while an iteration runs: the clock read at the top of the next
\* iteration, time.Now(), is one tick further on
Tick ==
  /\ pc \in {"select", "update", "draw", "sleep"}
  /\ sinceLast < MaxTicks
  /\ sinceLast' = sinceLast + 1
  /\ UNCHANGED <<iterCalls, targetTime, deltaTime, slept>>
  /\ UNCHANGED <<loopVars, chanVars, sigVars, pumpVars, termVars, histVars>>
  /\ UNCHANGED <<sceneVars, renderVars>>

\* the steps of the thread that called Run
LoopStep ==
  \/ CallInit
  \/ MakeRaw
  \/ Setup
  \/ LoopEnter
  \/ LoopExit
  \/ SelectResize
  \/ SelectSignal
  \/ SelectKeyClosed
  \/ SelectKeyEvent
  \/ SelectDefault
  \/ Update
  \/ Draw
  \/ Sleep
  \/ Cleanup
  \/ RunDeferred
  \/ Finish

\* Run with the clock, while nothing is typed: the pump goroutine stays
\* blocked in os.Stdin.Read
NextTiming ==
  \/ CallInit
  \/ MakeRaw
  \/ Setup
  \/ LoopEnter
  \/ LoopExit
  \/ SelectResize
  \/ SelectSignal
  \/ SelectDefault
  \/ Update
  \/ Draw
  \/ Sleep
  \/ Cleanup
  \/ RunDeferred
  \/ Finish
  \/ SignalArrives
  \/ ResizeArrives
  \/ PumpCheck
  \/ Tick

SpecTiming == Init /\ [][NextTiming]_vars

TypeOK ==
  /\ pc \in {"start", "makeraw", "setup", "top", "select", "update", "draw",
             "sleep", "cleanup", "exit", "returned", "panicked"}
  /\ running \in BOOLEAN
  /\ result \in {"none", "nil", "errInit"} \cup GameErrors
  /\ exitKind \in {"none", "return", "panic"}
  /\ Len(keyEvents) <= QueueCap
  /\ closeCount \in 0..2
  /\ pumpPc \in {"idle", "check", "read", "send", "done"}
  /\ frames \in 0..MaxFrames
  /\ Len(readLog) <= MaxReads
  /\ Len(iterCalls) <= 3
  /\ targetTime \in TimeScales
  /\ slept \in 0..TargetDelta

\* ------------------------------------------------------- scenes.Manager

MgrCalled(k) == [mgrCalls EXCEPT ![k] = @ + 1]

\* mutant: registering under the id of the active scene also activates it
AddScene_ReplacesActive(id, scene) ==
  /\ mgrCalls["add"] < MaxAdds
  /\ scenes' = [i \in DOMAIN scenes \cup {id} |->
                  IF i = id THEN scene ELSE scenes[i]]
  /\ mgrCall' = [op |-> "AddScene", arg |-> id, ret |-> "void"]
  /\ mgrCalls' = MgrCalled("add")
  /\ currentScene' = IF id \in DOMAIN scenes /\ scenes[id] = currentScene
                     THEN scene ELSE currentScene
  /\ UNCHANGED <<lifecycle, dispatch, changed>>
  /\ UNCHANGED <<gameLoopVars, renderVars>>

\* m.scenes[id] = scene
AddScene(id, scene) ==
  /\ mgrCalls["add"] < MaxAdds
  /\ scenes' = [i \in DOMAIN scenes \cup {id} |->
                  IF i = id THEN scene ELSE scenes[i]]
  /\ mgrCall' = [op |-> "AddScene", arg |-> id, ret |-> "void"]
  /\ mgrCalls' = MgrCalled("add")
  /\ UNCHANGED <<currentScene, lifecycle, dispatch, changed>>
  /\ UNCHANGED <<gameLoopVars, renderVars>>

\* m.scenes[id]: a missing key yields the zero value, the nil Scene
Lookup(id) == IF id \in DOMAIN scenes THEN scenes[id] ELSE NilScene

\* if m.currentScene != nil { m.currentScene.Exit() }
ExitCalls ==
  IF currentScene # NilScene
  THEN <<[call |-> "Exit", scene |-> currentScene]>>
  ELSE <<>>

\* mutant: changing to the scene that is already current is skipped
ChangeScene_SkipSame(id) ==
  /\ mgrCalls["change"] < MaxChanges
  /\ mgrCalls' = MgrCalled("change")
  /\ changed' = Append(changed, Lookup(id))
  /\ IF Lookup(id) = currentScene /\ currentScene # NilScene
     THEN /\ mgrCall' = [op |-> "ChangeScene", arg |-> id, ret |-> "void"]
          /\ UNCHANGED <<currentScene, lifecycle>>
     ELSE /\ currentScene' = Lookup(id)
          /\ IF Lookup(id) = NilScene
             THEN /\ lifecycle' = lifecycle \o ExitCalls
                  /\ mgrCall' = [op |-> "ChangeScene", arg |-> id, ret |-> "panic"]
             ELSE /\ lifecycle' = lifecycle \o ExitCalls \o
                                  <<[call |-> "Enter", scene |-> Lookup(id)]>>
                  /\ mgrCall' = [op |-> "ChangeScene", arg |-> id, ret |-> "void"]
  /\ UNCHANGED <<scenes, dispatch>>
  /\ UNCHANGED <<gameLoopVars, renderVars>>

\* mutant: an id that is not registered is ignored and the call returns
ChangeScene_IgnoreMissing(id) ==
  /\ mgrCalls["change"] < MaxChanges
  /\ mgrCalls' = MgrCalled("change")
  /\ changed' = Append(changed, Lookup(id))
  /\ mgrCall' = [op |-> "ChangeScene", arg |-> id, ret |-> "void"]
  /\ IF Lookup(id) = NilScene
     THEN UNCHANGED <<currentScene, lifecycle>>
     ELSE /\ currentScene' = Lookup(id)
          /\ lifecycle' = lifecycle \o ExitCalls \o
                          <<[call |-> "Enter", scene |-> Lookup(id)]>>
  /\ UNCHANGED <<scenes, dispatch>>
  /\ UNCHANGED <<gameLoopVars, renderVars>>

\* if m.currentScene != nil { m.currentScene.Exit() }
\* m.currentScene = m.scenes[id]
\* m.currentScene.Enter()     -- a method call on a nil interface panics
ChangeScene(id) ==
  /\ mgrCalls["change"] < MaxChanges
  /\ mgrCalls' = MgrCalled("change")
  /\ changed' = Append(changed, Lookup(id))
  /\ currentScene' = Lookup(id)
  /\ IF Lookup(id) = NilScene
     THEN /\ lifecycle' = lifecycle \o ExitCalls
          /\ mgrCall' = [op |-> "ChangeScene", arg |-> id, ret |-> "panic"]
     ELSE /\ lifecycle' = lifecycle \o ExitCalls \o
                          <<[call |-> "Enter", scene |-> Lookup(id)]>>
          /\ mgrCall' = [op |-> "ChangeScene", arg |-> id, ret |-> "void"]
  /\ UNCHANGED <<scenes, dispatch>>
  /\ UNCHANGED <<gameLoopVars, renderVars>>

\* the call the Manager makes on the current scene
Forward(call, arg, ret) ==
  Append(dispatch, [call |-> call, scene |-> currentScene, arg |-> arg,
                    ret |-> ret])

\* if m.currentScene != nil { m.currentScene.Update(dt) }
MgrUpdate(dt) ==
  /\ mgrCalls["dispatch"] < MaxDispatch
  /\ mgrCalls' = MgrCalled("dispatch")
  /\ dispatch' = IF currentScene # NilScene
                 THEN Forward("Update", dt, "void")
                 ELSE dispatch
  /\ mgrCall' = [op |-> "Update", arg |-> dt, ret |-> "void"]
  /\ UNCHANGED <<scenes, currentScene, lifecycle, changed>>
  /\ UNCHANGED <<gameLoopVars, renderVars>>

\* if m.currentScene != nil { m.currentScene.Draw(renderer) }
MgrDraw(renderer) ==
  /\ mgrCalls["dispatch"] < MaxDispatch
  /\ mgrCalls' = MgrCalled("dispatch")
  /\ dispatch' = IF currentScene # NilScene
                 THEN Forward("Draw", renderer, "void")
                 ELSE dispatch
  /\ mgrCall' = [op |-> "Draw", arg |-> renderer, ret |-> "void"]
  /\ UNCHANGED <<scenes, currentScene, lifecycle, changed>>
  /\ UNCHANGED <<gameLoopVars, renderVars>>

\* mutant: the scene's result is dropped
MgrHandleInput_DropsResult(input) ==
  /\ mgrCalls["dispatch"] < MaxDispatch
  /\ mgrCalls' = MgrCalled("dispatch")
  /\ \E sceneRet \in SceneResults :
       /\ dispatch' = IF currentScene # NilScene
                      THEN Forward("HandleInput", input, sceneRet)
                      ELSE dispatch
       /\ mgrCall' = [op |-> "HandleInput", arg |-> input, ret |-> "nil"]
  /\ UNCHANGED <<scenes, currentScene, lifecycle, changed>>
  /\ UNCHANGED <<gameLoopVars, renderVars>>

\* if m.currentScene != nil { return m.currentScene.HandleInput(input) }
\* return nil
MgrHandleInput(input) ==
  /\ mgrCalls["dispatch"] < MaxDispatch
  /\ mgrCalls' = MgrCalled("dispatch")
  /\ IF currentScene # NilScene
     THEN \E sceneRet \in SceneResults :
            /\ dispatch' = Forward("HandleInput", input, sceneRet)
            /\ mgrCall' = [op |-> "HandleInput", arg |-> input, ret |-> sceneRet]
     ELSE /\ dispatch' = dispatch
          /\ mgrCall' = [op |-> "HandleInput", arg |-> input, ret |-> "nil"]
  /\ UNCHANGED <<scenes, currentScene, lifecycle, changed>>
  /\ UNCHANGED <<gameLoopVars, renderVars>>

SceneNext ==
  \/ \E id \in SceneIDs, scene \in SceneObjs : AddScene(id, scene)
  \/ \E id \in SceneIDs : ChangeScene(id)
  \/ \E dt \in Deltas : MgrUpdate(dt)
  \/ MgrDraw("renderer")
  \/ \E b \in Bytes : MgrHandleInput(InputEvent(b))

SpecScenes == Init /\ [][SceneNext]_vars

\* ------------------------------------------------------- render.Renderer

\* the grid a Renderer holds
Grid == [buffer |-> buffer, colors |-> colors]

\* NewRenderer(width, height, pal): make panics on a negative length
NewRenderer(width, height) ==
  /\ rState = "none"
  /\ rOps' = rOps + 1
  /\ IF height < 0 \/ (height > 0 /\ width < 0)
     THEN /\ rState' = "failed"
          /\ rCall' = [op |-> "NewRenderer", width |-> width,
                       height |-> height, ret |-> "panic"]
          /\ UNCHANGED <<rWidth, rHeight, buffer, colors>>
     ELSE /\ rState' = "ready"
          /\ rWidth' = width
          /\ rHeight' = height
          /\ buffer' = [y \in 0..(height - 1) |-> [x \in 0..(width - 1) |-> Blank]]
          /\ colors' = [y \in 0..(height - 1) |->
                          [x \in 0..(width - 1) |-> ColorBlack]]
          /\ rCall' = [op |-> "NewRenderer", width |-> width,
                       height |-> height, ret |-> "ok"]
  /\ UNCHANGED <<out, wasDirty>>
  /\ UNCHANGED <<termColor, shown>>
  /\ UNCHANGED <<gameLoopVars, sceneVars>>

\* mutant: Clear resets the glyphs and leaves the colors
ClearGrid_GlyphsOnly(g) ==
  [buffer |-> [y \in DOMAIN g.buffer |-> [x \in DOMAIN g.buffer[y] |->
                 IF y < rHeight /\ x < rWidth THEN Blank ELSE g.buffer[y][x]]],
   colors |-> g.colors]

\* for y < r.height, x < r.width: buffer[y][x] = ' '; colors[y][x] = ColorBlack
ClearGrid(g) ==
  [buffer |-> [y \in DOMAIN g.buffer |-> [x \in DOMAIN g.buffer[y] |->
                 IF y < rHeight /\ x < rWidth THEN Blank ELSE g.buffer[y][x]]],
   colors |-> [y \in DOMAIN g.colors |-> [x \in DOMAIN g.colors[y] |->
                 IF y < rHeight /\ x < rWidth THEN ColorBlack
                                              ELSE g.colors[y][x]]]]

\* Renderer.Clear()
Clear ==
  /\ rState = "ready"
  /\ rOps < MaxRenderOps
  /\ rOps' = rOps + 1
  /\ wasDirty' = \E y \in DOMAIN buffer : \E x \in DOMAIN buffer[y] :
                   buffer[y][x] # Blank \/ colors[y][x] # ColorBlack
  /\ buffer' = ClearGrid(Grid).buffer
  /\ colors' = ClearGrid(Grid).colors
  /\ rCall' = [op |-> "Clear", ret |-> "void"]
  /\ UNCHANGED <<rState, rWidth, rHeight, out>>
  /\ UNCHANGED <<termColor, shown>>
  /\ UNCHANGED <<gameLoopVars, sceneVars>>

\* mutant: the right and bottom edges are tested with > instead of >=
OutOfBounds_OffByOne(x, y) == x < 0 \/ x > rWidth \/ y < 0 \/ y > rHeight

\* x < 0 || x >= r.width || y < 0 || y >= r.height
OutOfBounds(x, y) == x < 0 \/ x >= rWidth \/ y < 0 \/ y >= rHeight

\* DrawChar on grid g: the new grid and the error returned
DrawCharRes(g, char, x, y, color) ==
  IF OutOfBounds(x, y)
  THEN [g |-> g, err |-> ErrBounds]
  ELSE [g |-> [buffer |-> [g.buffer EXCEPT ![y][x] = char],
               colors |-> [g.colors EXCEPT ![y][x] = color]],
        err |-> "nil"]

\* Renderer.DrawChar(char, x, y, color)
DrawChar(char, x, y, color) ==
  /\ rState = "ready"
  /\ rOps < MaxRenderOps
  /\ rOps' = rOps + 1
  /\ LET r == DrawCharRes(Grid, char, x, y, color) IN
       /\ buffer' = r.g.buffer
       /\ colors' = r.g.colors
       /\ rCall' = [op |-> "DrawChar", char |-> char, x |-> x, y |-> y,
                    color |-> color, ret |-> r.err]
  /\ UNCHANGED <<rState, rWidth, rHeight, out, wasDirty>>
  /\ UNCHANGED <<termColor, shown>>
  /\ UNCHANGED <<gameLoopVars, sceneVars>>

\* Renderer.DrawPixel(x, y, color): return r.DrawChar(FullBlock, x, y, color)
DrawPixel(x, y, color) ==
  /\ rState = "ready"
  /\ rOps < MaxRenderOps
  /\ rOps' = rOps + 1
  /\ LET r == DrawCharRes(Grid, FullBlock, x, y, color) IN
       /\ buffer' = r.g.buffer
       /\ colors' = r.g.colors
       /\ rCall' = [op |-> "DrawPixel", x |-> x, y |-> y, color |-> color,
                    ret |-> r.err]
  /\ UNCHANGED <<rState, rWidth, rHeight, out, wasDirty>>
  /\ UNCHANGED <<termColor, shown>>
  /\ UNCHANGED <<gameLoopVars, sceneVars>>

\* for i, char := range text { DrawChar(char, x+i, y, color) ... }
\* i is the byte offset of the k-th rune of text
RECURSIVE TextFrom(_, _, _, _, _, _, _)
TextFrom(g, text, k, i, x, y, color) ==
  IF k > Len(text)
  THEN [g |-> g, err |-> "nil"]
  ELSE LET r == DrawCharRes(g, text[k], x + i, y, color) IN
         IF r.err # "nil"
         THEN r
         ELSE TextFrom(r.g, text, k + 1, i + Utf8Len(text[k]), x, y, color)

\* mutant: errors of DrawChar are ignored and nil is returned
RECURSIVE TextFrom_IgnoreErr(_, _, _, _, _, _, _)
TextFrom_IgnoreErr(g, text, k, i, x, y, color) ==
  IF k > Len(text)
  THEN [g |-> g, err |-> "nil"]
  ELSE TextFrom_IgnoreErr(DrawCharRes(g, text[k], x + i, y, color).g, text,
                          k + 1, i + Utf8Len(text[k]), x, y, color)

\* mutant of DrawTextRes built on it
DrawTextRes_IgnoreErr(g, text, x, y, color) ==
  TextFrom_IgnoreErr(g, text, 1, 0, x, y, color)

\* DrawText on grid g: the new grid and the error returned
DrawTextRes(g, text, x, y, color) == TextFrom(g, text, 1, 0, x, y, color)

\* Renderer.DrawText(text, x, y, color)
DrawText(text, x, y, color) ==
  /\ rState = "ready"
  /\ rOps < MaxRenderOps
  /\ rOps' = rOps + 1
  /\ LET r == DrawTextRes(Grid, text, x, y, color) IN
       /\ buffer' = r.g.buffer
       /\ colors' = r.g.colors
       /\ rCall' = [op |-> "DrawText", text |-> text, x |-> x, y |-> y,
                    color |-> color, ret |-> r.err]
  /\ UNCHANGED <<rState, rWidth, rHeight, out, wasDirty>>
  /\ UNCHANGED <<termColor, shown>>
  /\ UNCHANGED <<gameLoopVars, sceneVars>>

\* mutant: a cell outside the grid is skipped and the rectangle is clipped
RECURSIVE RectFrom_Clips(_, _, _, _, _, _, _, _, _)
RectFrom_Clips(g, dx, dy, x, y, width, height, char, color) ==
  IF dy >= height
  THEN [g |-> g, err |-> "nil"]
  ELSE IF dx >= width
       THEN RectFrom_Clips(g, 0, dy + 1, x, y, width, height, char, color)
       ELSE LET r == DrawCharRes(g, char, x + dx, y + dy, color) IN
              RectFrom_Clips(r.g, dx + 1, dy, x, y, width, height, char, color)

\* for dy < height { for dx < width { DrawChar(char, x+dx, y+dy, color) ... } }
RECURSIVE RectFrom(_, _, _, _, _, _, _, _, _)
RectFrom(g, dx, dy, x, y, width, height, char, color) ==
  IF dy >= height
  THEN [g |-> g, err |-> "nil"]
  ELSE IF dx >= width
       THEN RectFrom(g, 0, dy + 1, x, y, width, height, char, color)
       ELSE LET r == DrawCharRes(g, char, x + dx, y + dy, color) IN
              IF r.err # "nil"
              THEN r
              ELSE RectFrom(r.g, dx + 1, dy, x, y, width, height, char, color)

\* Renderer.DrawRect(x, y, width, height, char, color)
DrawRect(x, y, width, height, char, color) ==
  /\ rState = "ready"
  /\ rOps < MaxRenderOps
  /\ rOps' = rOps + 1
  /\ LET r == RectFrom(Grid, 0, 0, x, y, width, height, char, color) IN
       /\ buffer' = r.g.buffer
       /\ colors' = r.g.colors
       /\ rCall' = [op |-> "DrawRect", x |-> x, y |-> y, width |-> width,
                    height |-> height, char |-> char, color |-> color,
                    ret |-> r.err]
  /\ UNCHANGED <<rState, rWidth, rHeight, out, wasDirty>>
  /\ UNCHANGED <<termColor, shown>>
  /\ UNCHANGED <<gameLoopVars, sceneVars>>

\* r.palette.Colors[c] exists
InPalette(c) == c >= 0 /\ c < PaletteSize

\* mutant: the color sequence is written before every cell
RECURSIVE RenderFrom_EveryCell(_, _, _, _)
RenderFrom_EveryCell(sb, x, y, cur) ==
  IF y >= rHeight
  THEN [sb |-> sb, panic |-> FALSE]
  ELSE IF x >= rWidth
       THEN RenderFrom_EveryCell(Append(sb, <<"POS", y + 2>>), 0, y + 1, cur)
       ELSE IF InPalette(colors[y][x])
            THEN RenderFrom_EveryCell(sb \o <<<<"SGR", colors[y][x]>>,
                                              <<"GLYPH", buffer[y][x]>>>>,
                                      x + 1, y, colors[y][x])
            ELSE [sb |-> sb, panic |-> TRUE]

\* the loops of Render from cell (x, y) on, with currentColor = cur and the
\* builder holding sb; panics when the palette has no entry for a color
RECURSIVE RenderFrom(_, _, _, _)
RenderFrom(sb, x, y, cur) ==
  IF y >= rHeight
  THEN [sb |-> sb, panic |-> FALSE]
  ELSE IF x >= rWidth
       THEN RenderFrom(Append(sb, <<"POS", y + 2>>), 0, y + 1, cur)
       ELSE IF colors[y][x] # cur
            THEN IF InPalette(colors[y][x])
                 THEN RenderFrom(sb \o <<<<"SGR", colors[y][x]>>,
                                         <<"GLYPH", buffer[y][x]>>>>,
                                 x + 1, y, colors[y][x])
                 ELSE [sb |-> sb, panic |-> TRUE]
            ELSE RenderFrom(Append(sb, <<"GLYPH", buffer[y][x]>>), x + 1, y, cur)

\* the contents of the strings.Builder when the loops are done
RenderBody == RenderFrom(<<<<"HOME">>, <<"HIDE">>>>, 0, 0, ColorBlack)

\* the writes of one Render call, in order
RECURSIVE Flatten(_)
Flatten(writes) ==
  IF writes = <<>> THEN <<>> ELSE Head(writes) \o Flatten(Tail(writes))

\* the terminal the output is written to. A palette color sets the foreground
\* color until the next one; "\033[H" and "\033[%d;1H" move the cursor to the
\* start of a row and a rune advances it by a column; "\033[2J" blanks the
\* screen. TermRun is the terminal when toks[i..] has been written to one with
\* the cursor at (cx, cy), foreground color color, and screen the color each
\* cell was last printed in.
RECURSIVE TermRun(_, _, _, _, _, _)
TermRun(screen, color, cx, cy, toks, i) ==
  IF i > Len(toks)
  THEN [screen |-> screen, color |-> color]
  ELSE IF toks[i][1] = "GLYPH"
       THEN IF cy \in DOMAIN screen /\ cx \in DOMAIN screen[cy]
            THEN TermRun([screen EXCEPT ![cy][cx] = color], color, cx + 1, cy,
                         toks, i + 1)
            ELSE TermRun(screen, color, cx + 1, cy, toks, i + 1)
       ELSE IF toks[i][1] = "SGR"
            THEN TermRun(screen, toks[i][2], cx, cy, toks, i + 1)
       ELSE IF toks[i][1] = "POS"
            THEN TermRun(screen, color, 0, toks[i][2] - 1, toks, i + 1)
       ELSE IF toks[i][1] = "HOME"
            THEN TermRun(screen, color, 0, 0, toks, i + 1)
       ELSE IF toks[i][1] = "CLEAR"
            THEN TermRun([y \in DOMAIN screen |->
                            [x \in DOMAIN screen[y] |-> Unprinted]],
                         color, cx, cy, toks, i + 1)
       ELSE TermRun(screen, color, cx, cy, toks, i + 1)

\* the terminal after the writes of one Render call
Terminal(writes) ==
  TermRun([y \in 0..(rHeight - 1) |-> [x \in 0..(rWidth - 1) |-> Unprinted]],
          termColor, 0, 0, Flatten(writes), 1)

\* Renderer.Render(): fmt.Print("\033[H\033[2J"), then the builder is written
\* with os.Stdout.Write and once more with fmt.Print
Render ==
  /\ rState = "ready"
  /\ rOps < MaxRenderOps
  /\ rOps' = rOps + 1
  /\ IF RenderBody.panic
     THEN /\ out' = << <<<<"HOME">>, <<"CLEAR">>>> >>
          /\ rCall' = [op |-> "Render", ret |-> "panic"]
     ELSE /\ out' = << <<<<"HOME">>, <<"CLEAR">>>>, RenderBody.sb, RenderBody.sb >>
          /\ rCall' = [op |-> "Render", ret |-> "void"]
  /\ termColor' = Terminal(out').color
  /\ shown' = Terminal(out').screen
  /\ UNCHANGED <<rState, rWidth, rHeight, buffer, colors, wasDirty>>
  /\ UNCHANGED <<gameLoopVars, sceneVars>>

RenderNext ==
  \/ \E d \in Dims : NewRenderer(d[1], d[2])
  \/ Clear
  \/ \E ink \in Inks, p \in Points : DrawChar(ink[1], p[1], p[2], ink[2])
  \/ \E p \in Points : DrawPixel(p[1], p[2], ColorWhite)
  \/ \E text \in Texts, p \in Points : DrawText(text, p[1], p[2], ColorWhite)
  \/ \E p \in Points, sz \in Sizes, ink \in Inks :
       DrawRect(p[1], p[2], sz[1], sz[2], ink[1], ink[2])
  \/ Render

SpecRender == Init /\ [][RenderNext]_vars

\* ------------------------------------------------------------- properties

Left == pc \in {"returned", "panicked"}     \* Run is no longer executing

IsPrefix(s, t) ==
  /\ Len(s) <= Len(t)
  /\ \A i \in 1..Len(s) : s[i] = t[i]

\* the event the pump holds between its read and its send
InFlight == IF pumpPc = "send" THEN <<InputEvent(pumpBuf)>> ELSE <<>>

\* C1: whatever stopped the loop once it had started (quit, signal, queue
\* closure or a non-quit error), Game.Cleanup() has been called exactly once
\* when Run returns.
C1_CleanupExactlyOnce ==
  /\ calls["Cleanup"] <= 1
  /\ (pc = "returned" /\ stopCause # "none") => calls["Cleanup"] = 1

\* C2: on every path by which Run leaves after raw mode was acquired (return
\* or panic), the terminal mode has been restored and the cursor shown again,
\* each exactly once; neither is ever done more than once.
C2_TerminalRestored ==
  /\ calls["Restore"] <= 1
  /\ calls["ShowCursor"] <= 1
  /\ (Left /\ rawAcquired) =>
       /\ calls["Restore"] = 1
       /\ calls["ShowCursor"] = 1
       /\ ~termRaw
       /\ cursorVisible

\* a Game method panicked after frames were drawn; the terminal is restored
C2_Witness ==
  /\ pc = "panicked"
  /\ rawAcquired
  /\ calls["Draw"] >= 1
  /\ ~termRaw
  /\ cursorVisible

\* C3: when the loop has observed the closed input queue, Run returns an
\* error, never nil.
C3_QueueClosureReturnsError ==
  (pc = "returned" /\ observedClosed) => result \notin {"nil", "none"}

\* C4: a non-quit error returned by HandleInput or Update stops the loop and
\* is the very value Run returns.
C4_FatalErrorPropagated ==
  fatal # "none" =>
    /\ ~running
    /\ pc \in {"exit", "returned"}
    /\ exitKind = "return"
    /\ result = fatal

\* Run has returned the second of the two error values
C4_Witness ==
  /\ pc = "returned"
  /\ fatal = "errB"
  /\ result = "errB"
  /\ calls["Update"] >= 2

\* C5 (original): stopped by the quit outcome or by a signal, Run returns nil.
C5_QuitOrSignalReturnsNil ==
  (pc = "returned" /\ stopCause \in {"quit", "signal"}) => result = "nil"

\* C5 (amended): stopped by the quit outcome or by a signal, Run returns nil
\* unless the Update call of that same iteration returned a non-quit error,
\* and then Run returns that error.
C5_QuitOrSignalReturnsNilUnlessFatal ==
  (pc = "returned" /\ stopCause \in {"quit", "signal"}) =>
    result = IF fatal = "none" THEN "nil" ELSE fatal

\* a signal stopped the loop, the frame was finished, Run returned nil
C5_Witness ==
  /\ pc = "returned"
  /\ stopCause = "signal"
  /\ fatal = "none"
  /\ calls["Draw"] >= 1
  /\ result = "nil"

\* C6: the events passed to HandleInput are a prefix of the events the pump
\* read; together with the events still in the queue and the one the pump is
\* about to send they are exactly the events read, in order: nothing is
\* duplicated, reordered or skipped.
C6_InputOrderPreserved ==
  /\ IsPrefix(delivered, readLog)
  /\ delivered \o keyEvents \o InFlight = readLog

\* five events were read and all five delivered, one per iteration, while
\* the pump had to wait for room in the queue
C6_Witness ==
  /\ Len(readLog) >= 5
  /\ delivered = readLog
  /\ delivered[1] # delivered[2]
  /\ frames = Len(delivered)

\* C7: the pump is never stuck in its push: it is never waiting to send on a
\* full queue after Run has left, when nothing will drain the queue again.
C7_PushNeverStuck ==
  ~(pumpPc = "send" /\ Len(keyEvents) = QueueCap /\ Left)

\* C8: on a read failure the pump closes the queue exactly once, pushes
\* nothing afterwards, terminates, and never writes running; the loop stops
\* for the closure only when it observes it.
C8_PumpFailure ==
  [][/\ closeCount' <= 1
     /\ (closed' /\ ~closed) => (pumpPc' = "done" /\ running' = running)
     /\ closed => /\ pumpPc' = "done"
                  /\ readLog' = readLog
                  /\ Len(keyEvents') <= Len(keyEvents)
                  /\ closed'
     /\ (pumpPc' # pumpPc) => running' = running
     /\ (observedClosed' /\ ~observedClosed) => (closed /\ ~running')
     /\ (stopCause' = "closed") => observedClosed'
    ]_vars

\* the read failed while the loop was running; the loop saw it and returned
C8_Witness ==
  /\ closeCount = 1
  /\ pumpPc = "done"
  /\ observedClosed
  /\ stopCause = "closed"
  /\ pc = "returned"

\* C9: when acquiring raw mode has failed, no Game method has been called.
C9_RawFailureTouchesNoGame ==
  rawFailed => \A m \in {"Init", "HandleInput", "Update", "Draw", "Cleanup"} :
                 calls[m] = 0

\* C10: when Init failed, Run returns its error, the loop is not marked
\* running, the pump was not started, HandleInput, Update and Draw were not
\* called, and the terminal is not left in raw mode.
C10_InitFailure ==
  (pc = "returned" /\ result = "errInit") =>
    /\ ~running
    /\ pumpPc = "idle"
    /\ calls["HandleInput"] = 0
    /\ calls["Update"] = 0
    /\ calls["Draw"] = 0
    /\ ~termRaw

\* ---------------------------------------------- properties: scenes.Manager

Enter(scene) == [call |-> "Enter", scene |-> scene]
Exit(scene)  == [call |-> "Exit", scene |-> scene]

\* Enter(t1), Exit(t1), Enter(t2), ..., Exit(t(n-1)), Enter(tn)
RECURSIVE Expected(_)
Expected(ch) ==
  IF ch = <<>>
  THEN <<>>
  ELSE LET n == Len(ch) IN
         Expected(SubSeq(ch, 1, n - 1))
           \o (IF n > 1 THEN <<Exit(ch[n - 1])>> ELSE <<>>)
           \o <<Enter(ch[n])>>

\* C11: when every ChangeScene call so far named a registered id, the
\* lifecycle calls made are exactly Enter(t1), Exit(t1), Enter(t2), ...,
\* Exit(t(n-1)), Enter(tn) for the scenes t1..tn the calls named, also when
\* consecutive calls name the same scene.
C11_LifecycleOrder ==
  (\A i \in 1..Len(changed) : changed[i] # NilScene) =>
    lifecycle = Expected(changed)

\* A under id 0, B under id 1; ChangeScene(0), ChangeScene(1), ChangeScene(0)
C11_Witness ==
  /\ 0 \in DOMAIN scenes /\ scenes[0] = "A"
  /\ 1 \in DOMAIN scenes /\ scenes[1] = "B"
  /\ changed = <<"A", "B", "A">>
  /\ lifecycle = <<Enter("A"), Exit("A"), Enter("B"), Exit("B"), Enter("A")>>

\* C12: Update, Draw and HandleInput make exactly one call, on the active
\* scene, with the argument they were given, and HandleInput returns what the
\* scene returned; with no active scene they call nothing and HandleInput
\* returns nil.  They change neither the active scene nor the registry.
C12_DispatchForwards ==
  [][(mgrCalls'["dispatch"] # mgrCalls["dispatch"]) =>
       /\ mgrCall'.op \in {"Update", "Draw", "HandleInput"}
       /\ currentScene' = currentScene
       /\ scenes' = scenes
       /\ lifecycle' = lifecycle
       /\ IF currentScene # NilScene
          THEN dispatch' = Append(dispatch,
                                  [call |-> mgrCall'.op,
                                   scene |-> currentScene,
                                   arg |-> mgrCall'.arg,
                                   ret |-> mgrCall'.ret])
          ELSE /\ dispatch' = dispatch
               /\ mgrCall'.ret = IF mgrCall'.op = "HandleInput"
                                 THEN "nil" ELSE "void"
    ]_vars

\* the active scene returned the quit outcome and the Manager passed it on
C12_Witness ==
  /\ currentScene = "B"
  /\ mgrCall.op = "HandleInput"
  /\ mgrCall.ret = ErrQuitGame
  /\ Len(dispatch) = 2
  /\ dispatch[2].scene = "B"
  /\ dispatch[2].arg = mgrCall.arg

\* C13: ChangeScene with an id that is not in the registry does not return
\* normally (it panics) and calls Enter on no scene.
C13_UnknownSceneFatal ==
  [][(mgrCalls'["change"] # mgrCalls["change"]
        /\ mgrCall'.arg \notin DOMAIN scenes) =>
       /\ mgrCall'.op = "ChangeScene"
       /\ mgrCall'.ret = "panic"
       /\ \A i \in (Len(lifecycle) + 1)..Len(lifecycle') :
            lifecycle'[i].call # "Enter"
    ]_vars

\* a scene was active when ChangeScene was called with an unknown id
C13_Witness ==
  /\ mgrCall.op = "ChangeScene"
  /\ mgrCall.arg \notin DOMAIN scenes
  /\ mgrCall.ret = "panic"
  /\ lifecycle # <<>>
  /\ lifecycle[Len(lifecycle)].call = "Exit"

\* --------------------------------------------- properties: render.Renderer

InGrid(x, y) == 0 <= x /\ x < rWidth /\ 0 <= y /\ y < rHeight

\* C14: DrawChar(g,x,y,c) inside the grid returns no error, cell (x,y) then
\* holds (g,c) and every other cell is unchanged; outside the grid it returns
\* the out-of-bounds error and the grid is unchanged.
C14_DrawCharExact ==
  [][(rOps' # rOps /\ rCall'.op = "DrawChar") =>
       IF InGrid(rCall'.x, rCall'.y)
       THEN /\ rCall'.ret = "nil"
            /\ DOMAIN buffer' = DOMAIN buffer
            /\ DOMAIN colors' = DOMAIN colors
            /\ \A y \in DOMAIN buffer :
                 /\ DOMAIN buffer'[y] = DOMAIN buffer[y]
                 /\ DOMAIN colors'[y] = DOMAIN colors[y]
                 /\ \A x \in DOMAIN buffer[y] :
                      IF x = rCall'.x /\ y = rCall'.y
                      THEN /\ buffer'[y][x] = rCall'.char
                           /\ colors'[y][x] = rCall'.color
                      ELSE /\ buffer'[y][x] = buffer[y][x]
                           /\ colors'[y][x] = colors[y][x]
       ELSE /\ rCall'.ret = ErrBounds
            /\ buffer' = buffer
            /\ colors' = colors
    ]_vars

\* a cell of a grid that already held something else was written
C14_Witness ==
  /\ rCall.op = "DrawChar"
  /\ rCall.ret = "nil"
  /\ buffer[rCall.y][rCall.x] = rCall.char
  /\ colors[rCall.y][rCall.x] = rCall.color
  /\ \E y \in DOMAIN buffer : \E x \in DOMAIN buffer[y] :
       /\ <<x, y>> # <<rCall.x, rCall.y>>
       /\ buffer[y][x] # Blank

\* byte offset of the k-th rune (k = 1, 2, ...) of a text
RECURSIVE ByteOffset(_, _)
ByteOffset(text, k) ==
  IF k <= 1 THEN 0 ELSE ByteOffset(text, k - 1) + Utf8Len(text[k - 1])

\* the first rune of the text that DrawText places outside the grid
\* (Len(text) + 1 when there is none)
FirstOutside(text, x, y) ==
  LET bad == {k \in 1..Len(text) : ~InGrid(x + ByteOffset(text, k), y)} IN
    IF bad = {} THEN Len(text) + 1
    ELSE CHOOSE k \in bad : \A j \in bad : k <= j

\* C15: DrawText writes the characters left to right and stops at the first
\* one whose position is outside the grid, returning the out-of-bounds error
\* with the earlier writes in place and nothing else changed; it returns no
\* error exactly when every character is placed inside the grid.
C15_DrawTextStops ==
  [][(rOps' # rOps /\ rCall'.op = "DrawText") =>
       LET text == rCall'.text
           x0   == rCall'.x
           y0   == rCall'.y
           stop == FirstOutside(text, x0, y0)
           written == {x0 + ByteOffset(text, k) : k \in 1..(stop - 1)}
       IN
         /\ rCall'.ret = IF stop = Len(text) + 1 THEN "nil" ELSE ErrBounds
         /\ \A k \in 1..(stop - 1) :
              /\ buffer'[y0][x0 + ByteOffset(text, k)] = text[k]
              /\ colors'[y0][x0 + ByteOffset(text, k)] = rCall'.color
         /\ DOMAIN buffer' = DOMAIN buffer
         /\ \A y \in DOMAIN buffer :
              /\ DOMAIN buffer'[y] = DOMAIN buffer[y]
              /\ \A x \in DOMAIN buffer[y] :
                   (y # y0 \/ x \notin written) =>
                     /\ buffer'[y][x] = buffer[y][x]
                     /\ colors'[y][x] = colors[y][x]
    ]_vars

\* on a 10x3 grid DrawText("HI", 9, 1) wrote H at (9,1) and returned the error
C15_Witness ==
  /\ rWidth = 10
  /\ rHeight = 3
  /\ rCall.op = "DrawText"
  /\ rCall.text = <<"H", "I">>
  /\ rCall.x = 9
  /\ rCall.y = 1
  /\ rCall.ret = ErrBounds
  /\ buffer[1][9] = "H"

\* C16: DrawText writes consecutive columns: as far as the columns x, x+1, ...
\* lie inside the grid, the k-th character (k = 0, 1, ...) is in column x+k.
C16_ConsecutiveColumns ==
  (rCall.op = "DrawText") =>
    \A k \in 1..Len(rCall.text) :
      (\A j \in 1..k : InGrid(rCall.x + j - 1, rCall.y)) =>
        buffer[rCall.y][rCall.x + k - 1] = rCall.text[k]

\* Render ran to its end
Rendered == rCall.op = "Render" /\ rCall.ret = "void"

\* index in the builder of the cursor move that ends row y (2: before row 0)
RowEnd(sb, y) ==
  IF y < 0 THEN 2 ELSE CHOOSE i \in 1..Len(sb) : sb[i] = <<"POS", y + 2>>

\* number of color sequences the builder holds for row y
SGRCount(sb, y) ==
  Cardinality({i \in (RowEnd(sb, y - 1) + 1)..(RowEnd(sb, y) - 1) :
                 sb[i][1] = "SGR"})

\* number of maximal runs of same-colored consecutive cells in row y
Runs(y) ==
  IF rWidth <= 0 THEN 0
  ELSE 1 + Cardinality({x \in 1..(rWidth - 1) : colors[y][x] # colors[y][x - 1]})

\* currentColor when Render starts row y
Carried(y) == IF y = 0 THEN ColorBlack ELSE colors[y - 1][rWidth - 1]

GlyphCount(w) == Cardinality({i \in 1..Len(w) : w[i][1] = "GLYPH"})

\* C18: one Render call makes a single write, which holds every cell's glyph
\* exactly once.
C18_SingleBatchedWrite ==
  Rendered =>
    /\ Len(out) = 1
    /\ GlyphCount(out[1]) = rWidth * rHeight

\* C19: every cell's color is a valid index into the palette.
C19_ColorsInPalette ==
  \A y \in DOMAIN colors : \A x \in DOMAIN colors[y] :
    colors[y][x] >= 0 /\ colors[y][x] < PaletteSize

\* C20: after Clear every cell holds the blank glyph and the default color:
\* the grid is the one NewRenderer builds for the same dimensions.
C20_ClearResets ==
  (rCall.op = "Clear") =>
    /\ buffer = [y \in 0..(rHeight - 1) |-> [x \in 0..(rWidth - 1) |-> " "]]
    /\ colors = [y \in 0..(rHeight - 1) |-> [x \in 0..(rWidth - 1) |-> 0]]

\* a 10x3 grid that held something was cleared
C20_Witness ==
  /\ rCall.op = "Clear"
  /\ wasDirty
  /\ rWidth = 10
  /\ rHeight = 3

\* C21: NewRenderer fails whenever width <= 0 or height <= 0; for positive
\* dimensions it returns a renderer of that size whose cells all hold the
\* blank glyph and the default color.
C21_RejectsNonPositive ==
  (rCall.op = "NewRenderer") =>
    IF rCall.width <= 0 \/ rCall.height <= 0
    THEN rCall.ret # "ok" /\ rState = "failed"
    ELSE /\ rCall.ret = "ok"
         /\ rWidth = rCall.width
         /\ rHeight = rCall.height
         /\ buffer = [y \in 0..(rHeight - 1) |-> [x \in 0..(rWidth - 1) |-> Blank]]
         /\ colors = [y \in 0..(rHeight - 1) |->
                        [x \in 0..(rWidth - 1) |-> ColorBlack]]

\* C22: a signal that is pending when an iteration polls is handled in that
\* iteration (running becomes false), even when a resize or an input event is
\* pending too.
C22_PendingSignalHandled ==
  [][(pc = "select" /\ pc' # "select" /\ SignalReady) =>
       (~running' /\ signals' = 0)]_vars

\* the current iteration is over and Run has not been unwound by a panic
IterationOver ==
  /\ frames >= 1
  /\ \/ pc \in {"top", "cleanup"}
     \/ pc \in {"exit", "returned"} /\ exitKind = "return"

\* C23: every iteration makes at most one HandleInput call, then exactly one
\* Update call, then exactly one Draw call, in that order.
C23_OneUpdateOneDraw ==
  IterationOver =>
    iterCalls \in {<<"Update", "Draw">>, <<"HandleInput", "Update", "Draw">>}

\* C24: the iteration in which running is set to false still runs to its end,
\* Update and Draw are called in it, and Run leaves the loop only at the
\* check of the loop condition.
C24_NoPreemption ==
  (~running /\ IterationOver) =>
    /\ Len(iterCalls) >= 2
    /\ iterCalls[Len(iterCalls) - 1] = "Update"
    /\ iterCalls[Len(iterCalls)] = "Draw"

\* C25: at the end of an iteration the loop sleeps for the target frame
\* duration minus the time elapsed in that iteration when this is positive,
\* and does not sleep otherwise.
C25_SleepsRemainder ==
  [][(pc = "sleep" /\ pc' = "top") =>
       slept' = IF TargetDelta - sinceLast > 0
                THEN TargetDelta - sinceLast ELSE 0]_vars

\* the k-th cell of the rectangle of DrawRect call c in row-major order, and
\* the place of cell (x, y) in that order
CellAt(c, k) == <<c.x + (k % c.width), c.y + (k \div c.width)>>

RowMajor(c, x, y) == (y - c.y) * c.width + (x - c.x)

InRect(c, x, y) ==
  c.x <= x /\ x < c.x + c.width /\ c.y <= y /\ y < c.y + c.height

\* the number of cells before the first cell of the rectangle that is outside
\* the grid: the size of the rectangle when there is none
FirstOffending(c) ==
  LET n == IF c.width > 0 /\ c.height > 0 THEN c.width * c.height ELSE 0
      bad == {k \in 0..(n - 1) : ~InGrid(CellAt(c, k)[1], CellAt(c, k)[2])}
  IN IF bad = {} THEN n ELSE CHOOSE k \in bad : \A j \in bad : k <= j

\* C26: DrawRect returns no error exactly when every cell of the rectangle is
\* inside the grid; otherwise it returns the out-of-bounds error. The cells it
\* wrote are those before the first offending cell in row-major order (all of
\* them when there is none); they hold (g,c) and every other cell is unchanged.
C26_DrawRectRowMajor ==
  [][(rOps' # rOps /\ rCall'.op = "DrawRect") =>
       LET c == rCall'
           first == FirstOffending(c)
       IN /\ (c.ret = "nil") <=>
               (\A x \in c.x..(c.x + c.width - 1) :
                  \A y \in c.y..(c.y + c.height - 1) : InGrid(x, y))
          /\ c.ret \in {"nil", ErrBounds}
          /\ \A y \in DOMAIN buffer : \A x \in DOMAIN buffer[y] :
               IF InRect(c, x, y) /\ RowMajor(c, x, y) < first
               THEN buffer'[y][x] = c.char /\ colors'[y][x] = c.color
               ELSE buffer'[y][x] = buffer[y][x] /\ colors'[y][x] = colors[y][x]]_vars

\* a 2x2 rectangle at the right edge: one cell written, then the error
C26_Witness ==
  /\ rWidth = 10 /\ rHeight = 3
  /\ rCall.op = "DrawRect"
  /\ rCall.ret = ErrBounds
  /\ rCall.width = 2 /\ rCall.height = 2
  /\ rCall.x = 9 /\ rCall.y = 1
  /\ rCall.char = "H"
  /\ buffer[1][9] = "H"
  /\ buffer[2][9] = Blank

\* C27 as stated: once ChangeScene has been called and every call returned,
\* a scene is active and it is stored in the registry under some id.
C27_ActiveIsRegistered ==
  (mgrCalls["change"] >= 1 /\ \A i \in 1..Len(changed) : changed[i] # NilScene) =>
    /\ currentScene # NilScene
    /\ \E id \in DOMAIN scenes : scenes[id] = currentScene

\* C27: no scene is active before the first ChangeScene; a ChangeScene(id)
\* that returns makes the scene stored under id at that moment the active
\* one; every other call, AddScene included, leaves the active scene as it is.
C27_ActiveIsLastChanged ==
  [][/\ mgrCalls'["change"] = 0 => currentScene' = NilScene
     /\ mgrCalls'["change"] = mgrCalls["change"] => currentScene' = currentScene
     /\ (mgrCalls'["change"] # mgrCalls["change"] /\ mgrCall'.ret # "panic") =>
          /\ mgrCall'.arg \in DOMAIN scenes
          /\ currentScene' = scenes[mgrCall'.arg]
          /\ currentScene' # NilScene]_vars

\* AddScene replaced the object registered under the active scene's id: the
\* active scene is no longer in the registry
C27_Witness ==
  /\ mgrCall.op = "AddScene"
  /\ currentScene # NilScene
  /\ mgrCall.arg \in DOMAIN scenes
  /\ \A id \in DOMAIN scenes : scenes[id] # currentScene

\* C28: the pump goroutine reads and writes no loop state but the queue: in no
\* state is the pump about to read running while the loop thread is about to
\* write it.
C28_QueueOnlySharedState ==
  ~(pumpPc = "check" /\ pc = "select" /\ SignalReady)

\* C29: after each Render every cell is displayed in the color stored for it
\* (a terminal no color was ever sent to counts as showing the default,
\* black).
C29_DisplayedAsStored ==
  Rendered =>
    \A y \in DOMAIN colors : \A x \in DOMAIN colors[y] :
      \/ shown[y][x] = colors[y][x]
      \/ shown[y][x] = TermDefault /\ colors[y][x] = ColorBlack

\* running has been set to false and Run has not returned yet
Stopping == stopCause # "none" /\ ~Left

\* C30: once running is false the thread in Run always has a step to take,
\* whatever the state of the queue, the signal channels and the pump, and it
\* starts no further iteration: it returns after at most the rest of the
\* current one.
C30_StopsWithoutWaiting ==
  /\ [](Stopping => ENABLED LoopStep)
  /\ [][Stopping => frames' = frames]_vars

\* Run stopped by a signal has returned while the pump is still blocked in
\* its read of stdin
C30_Witness ==
  /\ pc = "returned"
  /\ stopCause = "signal"
  /\ pumpPc = "read"
  /\ keyEvents = <<>>

====
